---- MODULE Spec2Model ----
(***************************************************************************)
(* Live task view of the Luxor9 frontend: the useWebSocket hook            *)
(* (frontend/hooks/useWebSocket.ts) and the TaskPage component that        *)
(* consumes it (app/task/[id]/page.tsx).                                    *)
(*                                                                         *)
(* The hook keeps five pieces of React state (events, isConnected,         *)
(* latestScreenshot, plan, agents) and a ref to the last socket it made.   *)
(* One effect, keyed on taskId, creates a WebSocket and installs the       *)
(* onopen / onclose / onmessage handlers; its cleanup closes that socket.  *)
(* The browser's WebSocket object is the environment: readyState moves     *)
(* CONNECTING -> OPEN -> CLOSING -> CLOSED, a message event is dispatched  *)
(* only while readyState is OPEN, and close() never throws.                *)
(*                                                                         *)
(* Beside the hook: TaskPage's own state (polled task record, file list,   *)
(* tabs, file preview), HomePage's task form (app/page.tsx), and two       *)
(* utilities of packages/shared/utils (Validator, getEnvVar).              *)
(***************************************************************************)
EXTENDS Integers, Sequences, FiniteSets, TLC

\* ------------------------------------------------------------------ bounds
MaxStream  == 3      \* StreamSpec: inbound frames delivered on the one socket
MaxPage    == 3      \* PageSpec: inbound frames delivered to the page
MaxDeliver == 2      \* Spec: inbound frames delivered over the life of the hook
MaxSockets == 2      \* Spec: WebSocket objects constructed (mount + task switches)
MaxSends   == 1      \* Spec: calls of sendMessage
MaxRenders == 2      \* RenderSpec: re-renders with an unchanged taskId
MaxTwin    == 2      \* TwinSpec: inbound frames applied by each of the two instances
MaxRules   == 2      \* ValidatorSpec: rules added to the validator
MaxCalls   == 2      \* ValidatorSpec, EnvSpec: calls of validate / getEnvVar
MaxTab     == 3      \* TabSpec: inbound frames delivered to the page
MaxFetch   == 2      \* FileSpec: file content fetches in flight at once
MaxPolls   == 1      \* SwitchSpec, FileSpec: getTaskFiles requests in flight per task id
MaxSubmits == 3      \* HomeSpec: submit events of the task form

\* --------------------------------------------------------------- constants
Undef    == "undefined"           \* a JavaScript undefined / absent field
NullTask == "null"                \* taskId: string | null
TaskIds  == {"A", "B"}
Names    == {"n1", "n2"}
Roles    == {"r1", "r2"}
Images   == {"img1", "img2"}
Plans    == {"p1", "p2"}
Contents == {"c1"}

\* AgentEvent.type, lib/types.ts
EventTypes ==
    {"thought", "tool_call", "tool_result", "screenshot", "plan_update",
     "agent_spawn", "agent_complete", "task_started", "task_complete", "error"}

\* Task.status, lib/types.ts
TaskStatuses ==
    {"pending", "planning", "running", "completed", "failed", "cancelled"}

NoTask == [id |-> Undef, status |-> Undef]     \* useState<Task | null>(null)

\* agents is a Record<string, {role, status}>; a name that is no key of the
\* object maps to NoAgent here.
NoAgent == [role |-> Undef, status |-> Undef]

\* ---------------------------------------------------------------- payloads
\* A raw frame (message.data).  json says what the text is: "garbage" is not
\* JSON at all, "null" is the JSON literal null, "scalar" a JSON number or
\* string, "object" a JSON object with the fields below.  content says
\* whether the object carries its content record.
Frame(j, t, c, n, r, d) ==
    [json |-> j, type |-> t, content |-> c, name |-> n, role |-> r, data |-> d]

PlainTypes ==
    {"thought", "tool_call", "tool_result", "task_started", "task_complete", "error"}

ValidFrames ==
    {Frame("object", t, TRUE, Undef, Undef, Undef) : t \in PlainTypes}
    \cup {Frame("object", "screenshot", TRUE, Undef, Undef, d) : d \in Images}
    \cup {Frame("object", "plan_update", TRUE, Undef, Undef, d) : d \in Plans}
    \cup {Frame("object", "agent_spawn", TRUE, n, r, Undef) : n \in Names, r \in Roles}
    \cup {Frame("object", "agent_complete", TRUE, n, Undef, Undef) : n \in Names}

Garbage  == Frame("garbage", Undef, FALSE, Undef, Undef, Undef)
JsonNull == Frame("null", Undef, FALSE, Undef, Undef, Undef)
Scalar   == Frame("scalar", Undef, FALSE, Undef, Undef, Undef)
Bogus    == Frame("object", "bogus", TRUE, Undef, Undef, Undef)

\* recognised type, content record missing
NoContentTypes == {"screenshot", "agent_spawn", "thought"}

MalformedFrames ==
    {Garbage, JsonNull, Scalar, Bogus}
    \cup {Frame("object", t, FALSE, Undef, Undef, Undef) : t \in NoContentTypes}

Frames == ValidFrames \cup MalformedFrames

\* ------------------------------------------------------------------- state
VARIABLES
    phase,              \* "init" | "mounted" | "unmounted" | "crashed"
    taskId,             \* the hook's argument
    events,             \* useState<AgentEvent[]>([])
    isConnected,        \* useState(false)
    latestScreenshot,   \* useState<string | null>(null)
    plan,               \* useState<string>('')
    agents,             \* useState<Record<string, {role, status}>>({})
    wsRef,              \* useRef<WebSocket | null>(null): index into sockets, 0 = null
    ws,                 \* the socket the live effect closed over, 0 = none
    sockets,            \* every WebSocket constructed so far
    task,               \* TaskPage: useState<Task | null>(null)
    taskReqs,           \* api.getTask requests in flight, per task id
    delivered,          \* history: every frame handed to onmessage, in order
    sendCalls,          \* history: number of sendMessage calls
    renders,            \* history: re-renders with an unchanged taskId
    agentOrder,         \* the keys of the agents object, in insertion order
    staleSends,         \* history: sendMessage calls made after the cleanup of the ref's socket
    twin,               \* a second, independent instance of the hook and its page
    activeTab,          \* TaskPage: useState<ViewTab>('terminal')
    files,              \* TaskPage: useState<FileInfo[]>([]), with the id it was listed for
    fileReqs,           \* api.getTaskFiles requests in flight, per task id
    timers,             \* live setInterval timers of the poll effect, per task id
    selectedFile,       \* TaskPage: useState<string | null>(null)
    fileContent,        \* TaskPage: useState<string | null>(null)
    fetches,            \* file content fetches in flight, in issue order
    input,              \* HomePage: useState('')
    loading,            \* HomePage: useState(false)
    createReqs,         \* api.createTask requests in flight: their descriptions
    route,              \* where the router is: "/" or "/task/<id>"
    submits,            \* history: submit events handled by HomePage
    tasks,              \* HomePage: useState<Task[]>([]), as the ids listed
    listing,            \* api.listTasks of the mount effect: "idle" | "pending" | "done" | "failed"
    rules,              \* Validator.rules
    result,             \* what the last validate call returned
    env,                \* process.env
    envResult           \* what the last getEnvVar call returned or threw

pollVars == <<files, fileReqs, timers>>
fileVars == <<selectedFile, fileContent, fetches>>
homeVars == <<input, loading, createReqs, route, submits, tasks, listing>>
libVars  == <<rules, result, env, envResult>>

\* everything outside the hook and the tab of its page
rest == <<twin, pollVars, fileVars, homeVars, libVars>>

vars == <<phase, taskId, events, isConnected, latestScreenshot, plan, agents,
          wsRef, ws, sockets, task, taskReqs, delivered, sendCalls, renders,
          agentOrder, activeTab, staleSends, rest>>

derived == <<events, isConnected, latestScreenshot, plan, agents>>

\* the hook, the polled task record and the tab of its page
hookVars == <<phase, taskId, derived, wsRef, ws, sockets, task, taskReqs,
              delivered, sendCalls, renders, agentOrder, activeTab, staleSends>>

AllIds == TaskIds \cup {NullTask}

HookInit ==
    /\ phase = "init"
    /\ taskId = NullTask
    /\ events = << >>
    /\ isConnected = FALSE
    /\ latestScreenshot = Undef
    /\ plan = ""
    /\ agents = [n \in Names |-> NoAgent]
    /\ wsRef = 0
    /\ ws = 0
    /\ sockets = << >>
    /\ task = NoTask
    /\ taskReqs = [t \in TaskIds |-> 0]
    /\ delivered = << >>
    /\ sendCalls = 0
    /\ renders = 0
    /\ agentOrder = << >>
    /\ staleSends = 0

NoFiles == [task |-> Undef, paths |-> {}]      \* useState<FileInfo[]>([])

\* TaskPage's own state, lines 82-87, with no request or timer yet
PageInit ==
    /\ activeTab = "terminal"
    /\ files = NoFiles
    /\ fileReqs = [t \in TaskIds |-> 0]
    /\ timers = [t \in TaskIds |-> 0]
    /\ selectedFile = Undef
    /\ fileContent = Undef
    /\ fetches = << >>

\* HomePage's state, page.tsx lines 11-13, on the route "/"
HomeInit ==
    /\ input = ""
    /\ loading = FALSE
    /\ createReqs = << >>
    /\ route = "/"
    /\ submits = 0
    /\ tasks = << >>
    /\ listing = "idle"

\* the derived state and the page inputs of a hook that has seen nothing
TwinInit ==
    [events |-> << >>, isConnected |-> FALSE, latestScreenshot |-> Undef,
     plan |-> "", agents |-> [n \in Names |-> NoAgent], agentOrder |-> << >>,
     task |-> NoTask, seen |-> 0]

NoResult == [called |-> FALSE, calls |-> 0]

EnvNames == {"TEST_VAR", "APP_NAME"}

\* a new Validator (rules = []) and an environment with nothing set
LibInit ==
    /\ rules = << >>
    /\ result = NoResult
    /\ env = [v \in EnvNames |-> Undef]
    /\ envResult = NoResult

Init ==
    /\ HookInit
    /\ twin = TwinInit
    /\ PageInit
    /\ HomeInit
    /\ LibInit

\* ------------------------------------------------------------ the WebSocket
Socket(t) == [task |-> t, readyState |-> "CONNECTING", closeCalled |-> FALSE, sent |-> << >>]

\* ws.close(): a socket that is CONNECTING or OPEN starts closing; on one
\* that is CLOSING or CLOSED the call does nothing.
Close(socks, i) ==
    IF i = 0 THEN socks
    ELSE [socks EXCEPT ![i] =
            [@ EXCEPT !.closeCalled = TRUE,
                      !.readyState = IF @ \in {"CONNECTING", "OPEN"} THEN "CLOSING" ELSE @]]

\* ------------------------------------------------------- onmessage, 26-61
\* JSON.parse(message.data): throws on text that is not JSON, otherwise the
\* value the text denotes (null, a scalar, or the object).
JSONParse(p) ==
    IF p.json = "garbage"
    THEN [threw |-> TRUE, value |-> JsonNull]
    ELSE [threw |-> FALSE, value |-> p]

\* variant: agent events are kept out of the events array
EventsAfterSkipAgents(prev, p) ==
    IF JSONParse(p).threw
       \/ (p.json = "object" /\ p.type \in {"agent_spawn", "agent_complete"})
    THEN prev
    ELSE Append(prev, JSONParse(p).value)

\* variant: the new event is put in front
EventsAfterPrepend(prev, p) ==
    IF JSONParse(p).threw THEN prev ELSE <<JSONParse(p).value>> \o prev

\* variant: screenshots are kept out of the events array
EventsAfterSkipShots(prev, p) ==
    IF JSONParse(p).threw \/ (p.json = "object" /\ p.type = "screenshot")
    THEN prev
    ELSE Append(prev, JSONParse(p).value)

\* setEvents(prev => [...prev, event]) runs right after the parse, before the
\* switch reads event.type, so it is queued for every value that parsed.
EventsAfter(prev, p) ==
    IF JSONParse(p).threw THEN prev ELSE Append(prev, JSONParse(p).value)

\* true when the switch body reaches the setter of the given kind without a
\* TypeError: event is an object of that type and event.content is there.
Reaches(p, t) ==
    /\ ~JSONParse(p).threw
    /\ JSONParse(p).value.json = "object"
    /\ JSONParse(p).value.type = t

ScreenshotAfter(prev, p) ==
    IF Reaches(p, "screenshot") /\ p.content THEN p.data ELSE prev

\* variant: a plan once set is kept
PlanAfterKeepFirst(prev, p) ==
    IF Reaches(p, "plan_update") /\ p.content /\ prev = "" THEN p.data ELSE prev

PlanAfter(prev, p) ==
    IF Reaches(p, "plan_update") /\ p.content THEN p.data ELSE prev

\* variant: agent_spawn builds the object without spreading prev
AgentsAfterNoSpread(prev, p) ==
    IF Reaches(p, "agent_spawn") /\ p.content
    THEN [n \in Names |-> IF n = p.name THEN [role |-> p.role, status |-> "running"]
                                        ELSE NoAgent]
    ELSE IF Reaches(p, "agent_complete") /\ p.content
    THEN [prev EXCEPT ![p.name] = [role |-> prev[p.name].role, status |-> "completed"]]
    ELSE prev

\* agent_spawn: {...prev, [name]: {role, status: 'running'}}
\* agent_complete: {...prev, [name]: {...prev[name], status: 'completed'}};
\* spreading prev[name] when the name is no key spreads undefined, which
\* yields no fields, so the new record has a status and no role.
AgentsAfter(prev, p) ==
    IF Reaches(p, "agent_spawn") /\ p.content
    THEN [prev EXCEPT ![p.name] = [role |-> p.role, status |-> "running"]]
    ELSE IF Reaches(p, "agent_complete") /\ p.content
    THEN [prev EXCEPT ![p.name] = [role |-> prev[p.name].role, status |-> "completed"]]
    ELSE prev

InOrder(ord, n) == \E k \in 1..Len(ord) : ord[k] = n

\* {...prev, [name]: record}: the spread copies prev's keys in their order and
\* the computed key is added at the end unless prev has it already, in which
\* case it keeps its place.  Object.entries(agents) lists in that order.
OrderAfter(ord, p) ==
    IF (Reaches(p, "agent_spawn") \/ Reaches(p, "agent_complete")) /\ p.content
       /\ ~InOrder(ord, p.name)
    THEN Append(ord, p.name)
    ELSE ord

\* The updater handed to setAgents reads event.content.agent_name when React
\* runs it, outside the handler's try block: without a content record that is
\* a TypeError in the render.
UpdaterThrows(p) ==
    /\ (Reaches(p, "agent_spawn") \/ Reaches(p, "agent_complete"))
    /\ ~p.content

\* TaskPage's render reads e.type of every entry of events (find / filter,
\* lines 134-156; a null entry is a TypeError) and EventCard reads
\* event.content.<field> for these types (lines 335-377).
CardReadsContent ==
    {"thought", "tool_call", "tool_result", "task_complete", "error",
     "agent_spawn", "agent_complete"}

RenderThrows(evs) ==
    \E k \in 1..Len(evs) :
        \/ evs[k].json = "null"
        \/ evs[k].json = "object" /\ evs[k].type \in CardReadsContent /\ ~evs[k].content

\* --------------------------------------------------- TaskPage, lines 132-138
IsRunningOf(tsk) == tsk.status = "running" \/ tsk.status = "pending"

IsRunning == IsRunningOf(task)

FoundIn(evs, t) == \E k \in 1..Len(evs) : evs[k].type = t

Found(t) == FoundIn(events, t)

\* variant: an error event outranks task_complete
TaskStatusErrorFirst ==
    IF Found("error") THEN "failed"
    ELSE IF Found("task_complete") THEN "completed"
    ELSE IF IsRunning THEN "running"
    ELSE IF task # NoTask THEN task.status
    ELSE "pending"

\* variant: an open connection outranks the polled status
TaskStatusConnected ==
    IF Found("task_complete") THEN "completed"
    ELSE IF Found("error") THEN "failed"
    ELSE IF isConnected \/ IsRunning THEN "running"
    ELSE IF task # NoTask THEN task.status
    ELSE "pending"

TaskStatus ==
    IF Found("task_complete") THEN "completed"
    ELSE IF Found("error") THEN "failed"
    ELSE IF IsRunning THEN "running"
    ELSE IF task # NoTask THEN task.status
    ELSE "pending"

\* the same expression of the render, for any events array and task record
TaskStatusOf(evs, tsk) ==
    IF FoundIn(evs, "task_complete") THEN "completed"
    ELSE IF FoundIn(evs, "error") THEN "failed"
    ELSE IF IsRunningOf(tsk) THEN "running"
    ELSE IF tsk # NoTask THEN tsk.status
    ELSE "pending"

\* useEffect(() => { if (latestScreenshot) setActiveTab('browser') },
\* [latestScreenshot]), lines 110-113: the effect is due after a render in
\* which latestScreenshot is not the value of the render before.
TabAfter(tab, prev, next) ==
    IF next # prev /\ next \notin {Undef, ""} THEN "browser" ELSE tab

\* ------------------------------------------------------- view projections
\* variant: a card for every event
EventCardsAll(evs) == evs

\* events.map(event => <EventCard event={event} />): EventCard returns null
\* for a screenshot, so the stream shows a card for every other entry.
EventCards(evs) ==
    LET Shown(e) == e.type # "screenshot" IN SelectSeq(evs, Shown)

\* TerminalView: events.filter(tool_call | tool_result | thought)
TerminalEvents(evs) ==
    LET Shown(e) == e.type \in {"tool_call", "tool_result", "thought"}
    IN  SelectSeq(evs, Shown)

\* {events.filter(e => e.type === 'tool_call').length} steps, line 156
StepsOf(evs) ==
    LET Step(e) == e.type = "tool_call" IN Len(SelectSeq(evs, Step))

\* Object.entries(agents).map(([name, info]) => ...), lines 174-183: one row
\* per key, in the object's key order
Roster(ags, ord) == [k \in 1..Len(ord) |-> <<ord[k], ags[ord[k]]>>]

\* what the page shows for a derived state and a polled task record
View(evs, ags, ord, tsk) ==
    [status |-> TaskStatusOf(evs, tsk), steps |-> StepsOf(evs),
     terminal |-> TerminalEvents(evs), roster |-> Roster(ags, ord)]

\* ------------------------------------------------- the effect, lines 16-66
\* Body of the effect for task id t: nothing for null, otherwise a new
\* WebSocket in CONNECTING state.
Connect(socks, t) == IF t = NullTask THEN socks ELSE Append(socks, Socket(t))

\* variant: the cleanup forgets the socket
CleanupNoClose(socks, w) == socks

\* The cleanup returned by the effect: ws.close() on the socket it made.
Cleanup(socks, w) == Close(socks, w)

\* The hook's effect run for task id t, on top of the sockets left by the
\* previous cleanup.
RunEffect(socks, t) ==
    /\ taskId' = t
    /\ sockets' = Connect(socks, t)
    /\ ws' = IF t = NullTask THEN 0 ELSE Len(socks) + 1
    /\ wsRef' = IF t = NullTask THEN wsRef ELSE Len(socks) + 1

\* First render of a component that calls useWebSocket(t).
Mount(t) ==
    /\ phase = "init"
    /\ phase' = "mounted"
    /\ RunEffect(sockets, t)
    /\ UNCHANGED <<derived, task, taskReqs, delivered, sendCalls, renders, agentOrder,
                   activeTab, staleSends, rest>>

\* First render of TaskPage: the hook's effect, the load-task-info effect and
\* the poll effect, which starts its interval timer.
PageMount(t) ==
    /\ phase = "init"
    /\ phase' = "mounted"
    /\ RunEffect(sockets, t)
    /\ taskReqs' = [taskReqs EXCEPT ![t] = @ + 1]
    /\ timers' = [timers EXCEPT ![t] = @ + 1]
    /\ UNCHANGED <<derived, task, delivered, sendCalls, renders, agentOrder, activeTab,
                   staleSends, twin, files, fileReqs, fileVars, homeVars, libVars>>

\* variant: the effect has no dependency array and runs after every render
EffectDueAlways(old, new) == TRUE

\* useEffect(..., [taskId]): the effect (and the cleanup of its previous run)
\* is due after a render only when taskId differs from the previous render's.
EffectDue(old, new) == old # new

\* The component renders again with the task id it already has (a state
\* update of its own or of a parent).
Rerender ==
    /\ phase = "mounted"
    /\ renders' = renders + 1
    /\ IF EffectDue(taskId, taskId)
       THEN /\ taskId # NullTask => Len(sockets) < MaxSockets
            /\ RunEffect(Cleanup(sockets, ws), taskId)
       ELSE UNCHANGED <<taskId, sockets, ws, wsRef>>
    /\ UNCHANGED <<phase, derived, task, taskReqs, delivered, sendCalls,
                   agentOrder, activeTab, staleSends, rest>>

\* The route parameter changes under the mounted page: cleanup of the old
\* effect, then the effect again.  React state is kept: nothing resets it.
ChangeTask(t) ==
    /\ phase = "mounted"
    /\ EffectDue(taskId, t)
    /\ t # taskId
    /\ t # NullTask => Len(sockets) < MaxSockets
    /\ RunEffect(Cleanup(sockets, ws), t)
    /\ UNCHANGED <<phase, derived, task, taskReqs, delivered, sendCalls, renders,
                   agentOrder, activeTab, staleSends, rest>>

Unmount ==
    /\ phase = "mounted"
    /\ phase' = "unmounted"
    /\ sockets' = Cleanup(sockets, ws)
    /\ ws' = 0
    /\ UNCHANGED <<taskId, derived, wsRef, task, taskReqs, delivered, sendCalls, renders,
                   agentOrder, activeTab, staleSends, rest>>

\* ws.onopen = () => setIsConnected(true)
OnOpen(i) ==
    /\ sockets[i].readyState = "CONNECTING"
    /\ sockets' = [sockets EXCEPT ![i].readyState = "OPEN"]
    /\ isConnected' = IF phase = "mounted" THEN TRUE ELSE isConnected
    /\ UNCHANGED <<phase, taskId, events, latestScreenshot, plan, agents,
                   wsRef, ws, task, taskReqs, delivered, sendCalls, renders,
                   agentOrder, activeTab, staleSends, rest>>

\* variant: the close handler drops what the stream had built
OnCloseResets(i) ==
    /\ sockets[i].readyState # "CLOSED"
    /\ sockets' = [sockets EXCEPT ![i].readyState = "CLOSED"]
    /\ isConnected' = IF phase = "mounted" THEN FALSE ELSE isConnected
    /\ events' = IF phase = "mounted" THEN << >> ELSE events
    /\ UNCHANGED <<phase, taskId, latestScreenshot, plan, agents,
                   wsRef, ws, task, taskReqs, delivered, sendCalls, renders,
                   agentOrder, activeTab, staleSends, rest>>

\* variant: the close handler opens the connection again, whoever closed it
OnCloseReconnects(i) ==
    /\ sockets[i].readyState # "CLOSED"
    /\ isConnected' = IF phase = "mounted" THEN FALSE ELSE isConnected
    /\ IF Len(sockets) < MaxSockets
       THEN /\ sockets' = Append([sockets EXCEPT ![i].readyState = "CLOSED"],
                                 Socket(sockets[i].task))
            /\ wsRef' = Len(sockets) + 1
       ELSE /\ sockets' = [sockets EXCEPT ![i].readyState = "CLOSED"]
            /\ wsRef' = wsRef
    /\ UNCHANGED <<phase, taskId, events, latestScreenshot, plan, agents,
                   ws, task, taskReqs, delivered, sendCalls, renders,
                   agentOrder, activeTab, staleSends, rest>>

\* ws.onclose = () => setIsConnected(false); fired for a close the page asked
\* for as well as for one it did not (server or network).
OnClose(i) ==
    /\ sockets[i].readyState # "CLOSED"
    /\ sockets' = [sockets EXCEPT ![i].readyState = "CLOSED"]
    /\ isConnected' = IF phase = "mounted" THEN FALSE ELSE isConnected
    /\ UNCHANGED <<phase, taskId, events, latestScreenshot, plan, agents,
                   wsRef, ws, task, taskReqs, delivered, sendCalls, renders,
                   agentOrder, activeTab, staleSends, rest>>

\* ws.onmessage: the handler, then the render its state updates schedule.
\* A render that throws unmounts the page, which runs the cleanup.
Deliver(i, p) ==
    /\ phase = "mounted"
    /\ sockets[i].readyState = "OPEN"
    /\ delivered' = Append(delivered, [sock |-> i, frame |-> p, live |-> (i = ws)])
    /\ events' = EventsAfter(events, p)
    /\ latestScreenshot' = ScreenshotAfter(latestScreenshot, p)
    /\ plan' = PlanAfter(plan, p)
    /\ agents' = IF UpdaterThrows(p) THEN agents ELSE AgentsAfter(agents, p)
    /\ IF UpdaterThrows(p) \/ RenderThrows(events')
       THEN /\ phase' = "crashed"
            /\ sockets' = Cleanup(sockets, ws)
            /\ ws' = 0
       ELSE UNCHANGED <<phase, sockets, ws>>
    /\ agentOrder' = IF UpdaterThrows(p) THEN agentOrder ELSE OrderAfter(agentOrder, p)
    /\ activeTab' = IF phase' = "crashed" THEN activeTab
                    ELSE TabAfter(activeTab, latestScreenshot, latestScreenshot')
    /\ UNCHANGED <<taskId, isConnected, wsRef, task, taskReqs, sendCalls, renders,
                   staleSends, rest>>

\* variant: the hook's connected flag is tested, not the socket
SendOnConnected(socks, r, c) ==
    IF r # 0 /\ isConnected
    THEN [socks EXCEPT ![r].sent = Append(@, [type |-> "user_message", content |-> c])]
    ELSE socks

\* variant: no readyState test before send
SendOnAlways(socks, r, c) ==
    IF r # 0
    THEN [socks EXCEPT ![r].sent = Append(@, [type |-> "user_message", content |-> c])]
    ELSE socks

\* sendMessage, lines 68-72
SendOn(socks, r, c) ==
    IF r # 0 /\ socks[r].readyState = "OPEN"
    THEN [socks EXCEPT ![r].sent = Append(@, [type |-> "user_message", content |-> c])]
    ELSE socks

SendMessage(c) ==
    /\ phase # "init"
    /\ sendCalls < MaxSends
    /\ sendCalls' = sendCalls + 1
    /\ sockets' = SendOn(sockets, wsRef, c)
    /\ staleSends' = IF wsRef # 0 /\ sockets[wsRef].closeCalled
                     THEN staleSends + 1 ELSE staleSends
    /\ UNCHANGED <<phase, taskId, derived, wsRef, ws, task, taskReqs, delivered, renders,
                   agentOrder, activeTab, rest>>

\* The chat form, lines 256-272: the input is disabled={!isRunning} (the
\* button also when the input is blank), so a submit needs isRunning.
InputDisabled == ~IsRunning

\* handleSend, lines 125-130, on a non-blank input c: sendMessage(c.trim()).
HandleSend(c) ==
    /\ phase = "mounted"
    /\ ~InputDisabled
    /\ SendMessage(c)

\* api.getTask(taskId).then(setTask).catch(console.error), lines 93-95
GetTaskResolve(t, s) ==
    /\ phase = "mounted"
    /\ taskReqs[t] > 0
    /\ taskReqs' = [taskReqs EXCEPT ![t] = @ - 1]
    /\ task' = [id |-> t, status |-> s]
    /\ UNCHANGED <<phase, taskId, derived, wsRef, ws, sockets, delivered, sendCalls,
                   renders, agentOrder, activeTab, staleSends, rest>>

GetTaskReject(t) ==
    /\ phase = "mounted"
    /\ taskReqs[t] > 0
    /\ taskReqs' = [taskReqs EXCEPT ![t] = @ - 1]
    /\ UNCHANGED <<phase, taskId, derived, wsRef, ws, sockets, task, delivered, sendCalls,
                   renders, agentOrder, activeTab, staleSends, rest>>

\* ------------------------------------------ TaskPage beside the hook
\* The route parameter changes under the mounted page: the cleanups of the
\* three effects keyed on taskId (socket closed, interval cleared), then the
\* effects again for the new id.  Requests in flight are not cancelled.
PageChangeTask(t) ==
    /\ phase = "mounted"
    /\ EffectDue(taskId, t)
    /\ t # taskId
    /\ Len(sockets) < MaxSockets
    /\ RunEffect(Cleanup(sockets, ws), t)
    /\ taskReqs' = [taskReqs EXCEPT ![t] = @ + 1]
    /\ timers' = [timers EXCEPT ![taskId] = @ - 1, ![t] = @ + 1]
    /\ UNCHANGED <<phase, derived, task, delivered, sendCalls, renders, agentOrder,
                   activeTab, staleSends, twin, files, fileReqs, fileVars, homeVars, libVars>>

\* The page goes away: every cleanup runs.
PageUnmount ==
    /\ phase = "mounted"
    /\ phase' = "unmounted"
    /\ sockets' = Cleanup(sockets, ws)
    /\ ws' = 0
    /\ timers' = [timers EXCEPT ![taskId] = @ - 1]
    /\ UNCHANGED <<taskId, derived, wsRef, task, taskReqs, delivered, sendCalls, renders,
                   agentOrder, activeTab, staleSends, twin, files, fileReqs, fileVars,
                   homeVars, libVars>>

\* The interval of the poll effect for id t fires: api.getTaskFiles(t).
Tick(t) ==
    /\ timers[t] > 0
    /\ fileReqs[t] < MaxPolls
    /\ fileReqs' = [fileReqs EXCEPT ![t] = @ + 1]
    /\ UNCHANGED <<hookVars, twin, files, timers, fileVars, homeVars, libVars>>

Paths == {"x", "y"}

\* listings the file service answers with
FileLists == {{"x"}, {"x", "y"}}

\* .then(data => setFiles(data.files)), line 99
FilesResolve(t, ps) ==
    /\ phase = "mounted"
    /\ fileReqs[t] > 0
    /\ fileReqs' = [fileReqs EXCEPT ![t] = @ - 1]
    /\ files' = [task |-> t, paths |-> ps]
    /\ UNCHANGED <<hookVars, twin, timers, fileVars, homeVars, libVars>>

\* .catch(() => { })
FilesReject(t) ==
    /\ phase = "mounted"
    /\ fileReqs[t] > 0
    /\ fileReqs' = [fileReqs EXCEPT ![t] = @ - 1]
    /\ UNCHANGED <<hookVars, twin, files, timers, fileVars, homeVars, libVars>>

\* onClick={() => setActiveTab(tab)}, line 210
SelectTab(tab) ==
    /\ phase = "mounted"
    /\ tab # activeTab
    /\ activeTab' = tab
    /\ UNCHANGED <<phase, taskId, derived, wsRef, ws, sockets, task, taskReqs, delivered,
                   sendCalls, renders, agentOrder, staleSends, rest>>

\* the text the file service returns for api.getFileUrl(t, f)
Content(t, f) == "content of " \o t \o "/" \o f

CouldNotLoad == "(could not load file)"

Without(seq, k) == SubSeq(seq, 1, k - 1) \o SubSeq(seq, k + 1, Len(seq))

\* onSelectFile(file.path) on a listed file, then the effect keyed on
\* [selectedFile, taskId]: fetch(api.getFileUrl(taskId, selectedFile)).
SelectFile(f) ==
    /\ phase = "mounted"
    /\ f \in files.paths
    /\ f # selectedFile
    /\ Len(fetches) < MaxFetch
    /\ selectedFile' = f
    /\ fetches' = Append(fetches, [task |-> taskId, path |-> f])
    /\ UNCHANGED <<hookVars, twin, pollVars, fileContent, homeVars, libVars>>

\* .then(res => res.text()).then(setFileContent), lines 118-119: the text of
\* whichever fetch completes is stored
FetchResolve(k) ==
    /\ phase = "mounted"
    /\ fileContent' = Content(fetches[k].task, fetches[k].path)
    /\ fetches' = Without(fetches, k)
    /\ UNCHANGED <<hookVars, twin, pollVars, selectedFile, homeVars, libVars>>

\* .catch(() => setFileContent('(could not load file)')), line 120
FetchReject(k) ==
    /\ phase = "mounted"
    /\ fileContent' = CouldNotLoad
    /\ fetches' = Without(fetches, k)
    /\ UNCHANGED <<hookVars, twin, pollVars, selectedFile, homeVars, libVars>>

\* ------------------------------------------- HomePage, page.tsx lines 9-31
Inputs == {"", " ", "t", " t ", "u"}

\* String.prototype.trim on the inputs above
Trim(x) == IF x \in {"", " "} THEN "" ELSE IF x = "u" THEN "u" ELSE "t"

\* variant: only a blank input stops the submit
SubmitReturnsBlankOnly(inp, ld) == Trim(inp) = ""

\* if (!input.trim() || loading) return, line 21
SubmitReturns(inp, ld) == Trim(inp) = "" \/ ld

\* First render of HomePage: api.listTasks().then(setTasks).catch(console.error)
HomeMount ==
    /\ listing = "idle"
    /\ listing' = "pending"
    /\ UNCHANGED <<hookVars, twin, pollVars, fileVars, input, loading, createReqs, route,
                   submits, tasks, libVars>>

TaskLists == {<< >>, <<"A">>, <<"B", "A">>}

ListResolve(ts) ==
    /\ route = "/"
    /\ listing = "pending"
    /\ listing' = "done"
    /\ tasks' = ts
    /\ UNCHANGED <<hookVars, twin, pollVars, fileVars, input, loading, createReqs, route,
                   submits, libVars>>

ListReject ==
    /\ route = "/"
    /\ listing = "pending"
    /\ listing' = "failed"
    /\ UNCHANGED <<hookVars, twin, pollVars, fileVars, input, loading, createReqs, route,
                   submits, tasks, libVars>>

\* onChange={(e) => setInput(e.target.value)}; the input is disabled={loading}
SetInput(v) ==
    /\ route = "/"
    /\ listing # "idle"
    /\ ~loading
    /\ v # input
    /\ input' = v
    /\ UNCHANGED <<hookVars, twin, pollVars, fileVars, loading, createReqs, route, submits,
                   tasks, listing, libVars>>

\* handleSubmit up to its await: setLoading(true), api.createTask(input.trim())
HandleSubmit ==
    /\ route = "/"
    /\ listing # "idle"
    /\ submits' = submits + 1
    /\ IF SubmitReturns(input, loading)
       THEN UNCHANGED <<loading, createReqs>>
       ELSE /\ loading' = TRUE
            /\ createReqs' = Append(createReqs, Trim(input))
    /\ UNCHANGED <<hookVars, twin, pollVars, fileVars, input, route, tasks, listing, libVars>>

\* the await returns: router.push(`/task/${result.task_id}`)
CreateResolve(k, id) ==
    /\ route = "/"
    /\ k \in 1..Len(createReqs)
    /\ createReqs' = Without(createReqs, k)
    /\ route' = "/task/" \o id
    /\ UNCHANGED <<hookVars, twin, pollVars, fileVars, input, loading, submits, tasks,
                   listing, libVars>>

\* the await throws: console.error(err); setLoading(false)
CreateReject(k) ==
    /\ route = "/"
    /\ k \in 1..Len(createReqs)
    /\ createReqs' = Without(createReqs, k)
    /\ loading' = FALSE
    /\ UNCHANGED <<hookVars, twin, pollVars, fileVars, input, route, submits, tasks,
                   listing, libVars>>

\* ------------------------------------- Validator, validation.ts lines 46-77
Values == {"", "a", "ab"}

\* ValidationRule<T>: validate is given by the set of values it accepts
Rule(acc, msg) == [accepts |-> acc, message |-> msg]

RulePool ==
    {Rule({"a", "ab"}, "Value cannot be empty"),
     Rule({"", "a"}, "Value too long"),
     Rule({"ab"}, "Value cannot be empty"),
     Rule({}, "Never valid")}

\* variant: the loop stops at the first rule that fails
RECURSIVE ErrorsLoopFirst(_, _, _)
ErrorsLoopFirst(rs, v, errors) ==
    IF rs = << >> THEN errors
    ELSE IF v \notin Head(rs).accepts THEN Append(errors, Head(rs).message)
    ELSE ErrorsLoopFirst(Tail(rs), v, errors)

\* for (const rule of this.rules) if (!rule.validate(value))
\* errors.push(rule.message), lines 62-66
RECURSIVE ErrorsLoop(_, _, _)
ErrorsLoop(rs, v, errors) ==
    IF rs = << >> THEN errors
    ELSE ErrorsLoop(Tail(rs), v,
                    IF v \notin Head(rs).accepts
                    THEN Append(errors, Head(rs).message)
                    ELSE errors)

\* validate(value), lines 59-72
ValidateResult(rs, v) ==
    LET errors == ErrorsLoop(rs, v, << >>)
    IN  [isValid |-> Len(errors) = 0, errors |-> errors]

\* addRule(rule): this.rules.push(rule)
AddRule(r) ==
    /\ Len(rules) < MaxRules
    /\ rules' = Append(rules, r)
    /\ UNCHANGED <<hookVars, twin, pollVars, fileVars, homeVars, result, env, envResult>>

Validate(v) ==
    /\ result.calls < MaxCalls
    /\ result' = [called |-> TRUE, calls |-> result.calls + 1, value |-> v,
                  nrules |-> Len(rules),
                  isValid |-> ValidateResult(rules, v).isValid,
                  errors |-> ValidateResult(rules, v).errors]
    /\ UNCHANGED <<hookVars, twin, pollVars, fileVars, homeVars, rules, env, envResult>>

\* ------------------------------------------- getEnvVar, config.ts lines 9-15
EnvValues == {Undef, "", "x"}       \* unset, set to '', set to a text
Defaults  == {Undef, "", "d"}       \* no default, default '', default text

Falsy(x) == x \in {Undef, ""}

\* variant: an empty string counts as a value (value ?? defaultValue)
GetEnvVarNullish(e, name, defaultValue) ==
    LET value == e[name] IN
    IF value = Undef /\ defaultValue = Undef
    THEN [threw |-> TRUE, value |-> Undef]
    ELSE [threw |-> FALSE, value |-> IF value # Undef THEN value ELSE defaultValue]

GetEnvVar(e, name, defaultValue) ==
    LET value == e[name] IN
    IF Falsy(value) /\ defaultValue = Undef
    THEN [threw |-> TRUE, value |-> Undef]
    ELSE [threw |-> FALSE,
          value |-> IF ~Falsy(value) THEN value
                    ELSE IF ~Falsy(defaultValue) THEN defaultValue
                    ELSE ""]

\* process.env[name] = v, or delete process.env[name] for v = Undef
SetEnv(name, v) ==
    /\ env[name] # v
    /\ env' = [env EXCEPT ![name] = v]
    /\ UNCHANGED <<hookVars, twin, pollVars, fileVars, homeVars, rules, result, envResult>>

CallGetEnvVar(name, d) ==
    /\ envResult.calls < MaxCalls
    /\ envResult' = [called |-> TRUE, calls |-> envResult.calls + 1,
                     name |-> name, default |-> d,
                     threw |-> GetEnvVar(env, name, d).threw,
                     value |-> GetEnvVar(env, name, d).value]
    /\ UNCHANGED <<hookVars, twin, pollVars, fileVars, homeVars, rules, result, env>>

\* ------------------------------------------------------ a second instance
\* onmessage of the second instance, for a frame its page renders without
\* a throw: the same setters in the same order.
TwinDeliver(p) ==
    /\ ~UpdaterThrows(p)
    /\ ~RenderThrows(EventsAfter(twin.events, p))
    /\ twin' = [twin EXCEPT !.events = EventsAfter(@, p),
                            !.latestScreenshot = ScreenshotAfter(@, p),
                            !.plan = PlanAfter(@, p),
                            !.agents = AgentsAfter(@, p),
                            !.agentOrder = OrderAfter(@, p),
                            !.seen = @ + 1]
    /\ UNCHANGED <<hookVars, pollVars, fileVars, homeVars, libVars>>

\* onopen (b = TRUE) or onclose (b = FALSE) of the second instance's socket
TwinConnected(b) ==
    /\ twin.isConnected # b
    /\ twin' = [twin EXCEPT !.isConnected = b]
    /\ UNCHANGED <<hookVars, pollVars, fileVars, homeVars, libVars>>

\* the second instance's getTask resolves
TwinGetTask(t, s) ==
    /\ twin.task = NoTask
    /\ twin' = [twin EXCEPT !.task = [id |-> t, status |-> s]]
    /\ UNCHANGED <<hookVars, pollVars, fileVars, homeVars, libVars>>

\* ---------------------------------------------------------- specifications
SocketIds == 1..Len(sockets)

\* frames the page-level and hook-level specifications draw from
PageFrames ==
    {Frame("object", t, TRUE, Undef, Undef, Undef) : t \in {"task_started", "task_complete", "error"}}
    \cup {Bogus}

HookFrames ==
    {Frame("object", "plan_update", TRUE, Undef, Undef, "p1"),
     Frame("object", "agent_spawn", TRUE, "n1", "r1", Undef),
     JsonNull}

\* The hook over its whole life: mount with any task id, task switches,
\* unmount, socket events, inbound frames and outbound commands.
Next ==
    \/ \E t \in AllIds : Mount(t)
    \/ \E t \in AllIds : ChangeTask(t)
    \/ Unmount
    \/ \E i \in SocketIds : OnOpen(i)
    \/ \E i \in SocketIds : OnClose(i)
    \/ \E i \in SocketIds, p \in HookFrames : Len(delivered) < MaxDeliver /\ Deliver(i, p)
    \/ \E c \in Contents : SendMessage(c)

Spec == Init /\ [][Next]_vars

\* The connection alone: renders, task switches and socket events.
RenderNext ==
    \/ \E t \in AllIds : Mount(t)
    \/ renders < MaxRenders /\ Rerender
    \/ \E t \in AllIds : ChangeTask(t)
    \/ Unmount
    \/ \E i \in SocketIds : OnOpen(i)
    \/ \E i \in SocketIds : OnClose(i)

RenderSpec == Init /\ [][RenderNext]_vars

\* One task, one socket, every kind of frame: the reducer.
StreamNext ==
    \/ \E t \in TaskIds : Mount(t)
    \/ \E i \in SocketIds : OnOpen(i)
    \/ \E i \in SocketIds : OnClose(i)
    \/ \E i \in SocketIds, p \in Frames : Len(delivered) < MaxStream /\ Deliver(i, p)

StreamSpec == Init /\ [][StreamNext]_vars

\* The task page on one task: the stream next to the polled task record.
PageNext ==
    \/ \E t \in TaskIds : PageMount(t)
    \/ \E i \in SocketIds : OnOpen(i)
    \/ \E i \in SocketIds : OnClose(i)
    \/ \E i \in SocketIds, p \in PageFrames : Len(delivered) < MaxPage /\ Deliver(i, p)
    \/ \E t \in TaskIds, s \in TaskStatuses : GetTaskResolve(t, s)
    \/ \E t \in TaskIds : GetTaskReject(t)
    \/ \E c \in Contents : HandleSend(c)

PageSpec == Init /\ [][PageNext]_vars

\* Two instances of the task page on the same task, each with its own stream
\* and its own polled record.
TwinFrames ==
    {Frame("object", "agent_spawn", TRUE, "n1", "r1", Undef),
     Frame("object", "agent_spawn", TRUE, "n2", "r1", Undef),
     Frame("object", "tool_call", TRUE, Undef, Undef, "c1"),
     Frame("object", "task_complete", TRUE, Undef, Undef, "c1")}

TwinStatuses == {"running", "completed"}

TwinNext ==
    \/ PageMount("A")
    \/ \E i \in SocketIds : OnOpen(i)
    \/ \E i \in SocketIds : OnClose(i)
    \/ \E i \in SocketIds, p \in TwinFrames : Len(delivered) < MaxTwin /\ Deliver(i, p)
    \/ \E s \in TwinStatuses : GetTaskResolve("A", s)
    \/ \E p \in TwinFrames : twin.seen < MaxTwin /\ TwinDeliver(p)
    \/ \E b \in BOOLEAN : TwinConnected(b)
    \/ \E s \in TwinStatuses : TwinGetTask("A", s)

TwinSpec == Init /\ [][TwinNext]_vars

\* A validator that is given rules and asked about values.
ValidatorNext ==
    \/ \E r \in RulePool : AddRule(r)
    \/ \E v \in Values : Validate(v)

ValidatorSpec == Init /\ [][ValidatorNext]_vars

\* The environment is set and read.
EnvNext ==
    \/ \E n \in EnvNames, v \in EnvValues : SetEnv(n, v)
    \/ \E n \in EnvNames, d \in Defaults : CallGetEnvVar(n, d)

EnvSpec == Init /\ [][EnvNext]_vars

\* The task page with its tabs: screenshots arrive while the user clicks tabs.
TabFrames ==
    {Frame("object", "screenshot", TRUE, Undef, Undef, d) : d \in Images}
    \cup {Frame("object", "thought", TRUE, Undef, Undef, "c1")}

Tabs == {"terminal", "browser", "files"}

TabNext ==
    \/ \E t \in TaskIds : PageMount(t)
    \/ \E i \in SocketIds : OnOpen(i)
    \/ \E i \in SocketIds, p \in TabFrames : Len(delivered) < MaxTab /\ Deliver(i, p)
    \/ \E tab \in Tabs : SelectTab(tab)

TabSpec == Init /\ [][TabNext]_vars

\* The task page across task switches: the polled record and the file list.
SwitchNext ==
    \/ \E t \in TaskIds : PageMount(t)
    \/ \E t \in TaskIds : PageChangeTask(t)
    \/ PageUnmount
    \/ \E t \in TaskIds, s \in TwinStatuses : GetTaskResolve(t, s)
    \/ \E t \in TaskIds : GetTaskReject(t)
    \/ \E t \in TaskIds : Tick(t)
    \/ \E t \in TaskIds, ps \in FileLists : FilesResolve(t, ps)
    \/ \E t \in TaskIds : FilesReject(t)

SwitchSpec == Init /\ [][SwitchNext]_vars

\* The files tab of one task: listings arrive, files are selected, contents
\* are fetched.
FileNext ==
    \/ PageMount("A")
    \/ Tick("A")
    \/ \E ps \in FileLists : FilesResolve("A", ps)
    \/ \E f \in Paths : SelectFile(f)
    \/ \E k \in 1..Len(fetches) : FetchResolve(k)
    \/ \E k \in 1..Len(fetches) : FetchReject(k)

FileSpec == Init /\ [][FileNext]_vars

\* The home page: typing, submitting, and the answers to createTask.
HomeNext ==
    \/ HomeMount
    \/ \E ts \in TaskLists : ListResolve(ts)
    \/ ListReject
    \/ \E v \in Inputs : SetInput(v)
    \/ submits < MaxSubmits /\ HandleSubmit
    \/ \E k \in 1..Len(createReqs), id \in TaskIds : CreateResolve(k, id)
    \/ \E k \in 1..Len(createReqs) : CreateReject(k)

HomeSpec == Init /\ [][HomeNext]_vars

\* ------------------------------------------------------------ the history
DeliveredIx == 1..Len(delivered)

\* the step hands one more frame to onmessage
Delivers == Len(delivered') = Len(delivered) + 1

LastFrame == delivered'[Len(delivered')].frame

AllValid == \A k \in DeliveredIx : delivered[k].frame \in ValidFrames

DeliveredType(t) == \E k \in DeliveredIx : delivered[k].frame.type = t

NonShots == {k \in DeliveredIx : delivered[k].frame.type # "screenshot"}

AgentKeys == {n \in Names : agents[n] # NoAgent}

Spawned == {n \in Names : \E k \in DeliveredIx :
                delivered[k].frame.type = "agent_spawn" /\ delivered[k].frame.name = n}

\* positions of the spawn / complete events of agent n
AgentIx(n) == {k \in DeliveredIx :
                 /\ delivered[k].frame.type \in {"agent_spawn", "agent_complete"}
                 /\ delivered[k].frame.name = n}

LastAgentType(n) ==
    LET last == CHOOSE k \in AgentIx(n) : \A j \in AgentIx(n) : j <= k
    IN  delivered[last].frame.type

\* ------------------------------------------------------------------ claims

\* C1: handling a malformed inbound payload (not JSON, JSON null or scalar,
\* unrecognised type, recognised type without its content) leaves events,
\* agents, plan, latestScreenshot and connected exactly as they were.
C1_MalformedLeavesStateUnchanged ==
    [][(Delivers /\ LastFrame \in MalformedFrames) => derived' = derived]_vars

C3_AgentsAreTheSpawnedNames ==
    AllValid =>
        /\ AgentKeys = Spawned
        /\ \A n \in Spawned :
              agents[n].status =
                 IF LastAgentType(n) = "agent_spawn" THEN "running" ELSE "completed"

\* C4: an AgentComplete whose name is no key of agents leaves agents as it
\* was: no record is created for the name.
C4_UnknownCompleteIgnored ==
    [][(/\ Delivers
        /\ LastFrame \in ValidFrames
        /\ LastFrame.type = "agent_complete"
        /\ agents[LastFrame.name] = NoAgent) => agents' = agents]_vars

\* the frames socket w handed to onmessage, in order
FramesOf(w) ==
    LET OnW(e) == e.sock = w
        sel == SelectSeq(delivered, OnW)
    IN  [k \in 1..Len(sel) |-> sel[k].frame]

DeliveredOn(w, t) ==
    \E k \in DeliveredIx : delivered[k].sock = w /\ delivered[k].frame.type = t

\* C5: after a switch to another task id, events, agents, plan and
\* latestScreenshot hold only what the connection of the current task id
\* delivered.
C5_StateOnlyFromCurrentTask ==
    (phase = "mounted" /\ ws # 0) =>
        /\ events = FramesOf(ws)
        /\ plan # "" => DeliveredOn(ws, "plan_update")
        /\ latestScreenshot # Undef => DeliveredOn(ws, "screenshot")
        /\ AgentKeys # {} => DeliveredOn(ws, "agent_spawn")

\* C6: while the page is displayed, the status is 'completed' once a
\* TaskComplete has been applied (whether or not an Error was applied too)
\* and 'failed' once an Error and no TaskComplete has been applied, whatever
\* the polled task record and the connected flag are.
C6_StreamTerminalSignalsWin ==
    phase = "mounted" =>
        /\ DeliveredType("task_complete") => TaskStatus = "completed"
        /\ (DeliveredType("error") /\ ~DeliveredType("task_complete"))
              => TaskStatus = "failed"

C6_Witness ==
    /\ phase = "mounted"
    /\ DeliveredType("task_complete")
    /\ DeliveredType("error")
    /\ task.status = "running"
    /\ ~isConnected
    /\ TaskStatus = "completed"

NoTerminalEvent == ~DeliveredType("task_complete") /\ ~DeliveredType("error")

\* C7 as claimed: with no TaskComplete and no Error applied, the status is
\* 'running' whenever connected is true, and the polled task status whenever
\* connected is false.
C7_RunningWhileConnected ==
    (phase = "mounted" /\ NoTerminalEvent) =>
        /\ isConnected => TaskStatus = "running"
        /\ (~isConnected /\ task # NoTask) => TaskStatus = task.status

\* C7 as amended: with no TaskComplete and no Error applied, the status does
\* not depend on connected: it is 'running' when the polled task status is
\* 'running' or 'pending', 'pending' while no task record has been loaded,
\* and the polled task status otherwise.
C7_PolledStatusDecides ==
    (phase = "mounted" /\ NoTerminalEvent) =>
        TaskStatus =
            IF task = NoTask THEN "pending"
            ELSE IF task.status \in {"running", "pending"} THEN "running"
            ELSE task.status

C7_Witness ==
    /\ phase = "mounted"
    /\ NoTerminalEvent
    /\ Len(delivered) > 0
    /\ isConnected
    /\ task.status = "completed"
    /\ TaskStatus = "completed"

\* the socket of the live effect was closed by the other side or the network
ClosedUnexpectedly ==
    /\ phase = "mounted"
    /\ ws # 0
    /\ sockets[ws].readyState = "CLOSED"
    /\ ~sockets[ws].closeCalled

\* a step of the hook that opens another connection for the task id it is on
ReconnectStep ==
    /\ Next
    /\ taskId' = taskId
    /\ Len(sockets') = Len(sockets) + 1
    /\ sockets'[Len(sockets')].task = taskId

\* C8: when the socket closes unexpectedly while the view stays mounted on
\* the same task id, a new connection attempt to the same address is made:
\* in every such state the hook has a step that opens one.
C8_ReconnectsAfterUnexpectedClose ==
    ClosedUnexpectedly => ENABLED ReconnectStep

TotalSent(socks) ==
    LET n[k \in 0..Len(socks)] == IF k = 0 THEN 0 ELSE n[k - 1] + Len(socks[k].sent)
    IN  n[Len(socks)]

\* C9: a call of sendMessage while the socket of wsRef is not OPEN (no socket
\* yet, connecting, closing, closed, task id null) writes no frame; a call
\* while it is OPEN writes exactly one frame {type: 'user_message', content}
\* on that socket.  A frame is never handed to a socket that is not OPEN, the
\* one case in which send() raises.
C9_SendOnlyWhenOpen ==
    [][sendCalls' = sendCalls + 1 =>
          IF wsRef # 0 /\ sockets[wsRef].readyState = "OPEN"
          THEN /\ TotalSent(sockets') = TotalSent(sockets) + 1
               /\ \E c \in Contents :
                     sockets'[wsRef].sent =
                        Append(sockets[wsRef].sent, [type |-> "user_message", content |-> c])
          ELSE \A i \in SocketIds : sockets'[i].sent = sockets[i].sent]_vars

C9_Witness ==
    /\ sendCalls > 0
    /\ wsRef # 0
    /\ Len(sockets[wsRef].sent) > 0
    /\ sockets[wsRef].sent[1].type = "user_message"

\* C10: when the consumer detaches (unmount, task switch, or a render that
\* throws), close has been called on the socket the effect had created, and
\* no frame of a socket is handed to the state once its effect is cleaned up.
C10_DetachClosesAndSilences ==
    /\ \A i \in SocketIds : i # ws => sockets[i].closeCalled
    /\ \A k \in DeliveredIx : delivered[k].live

C10_Witness ==
    /\ phase = "mounted"
    /\ Len(sockets) = 2
    /\ ws = 2
    /\ sockets[1].closeCalled
    /\ delivered # << >>
    /\ delivered[1].sock = 1

\* sockets on which a message event can still be dispatched, now or after
\* the connection opens
CanDeliver == {i \in SocketIds : sockets[i].readyState \in {"CONNECTING", "OPEN"}}

NotClosed == {i \in SocketIds : sockets[i].readyState # "CLOSED"}

\* C11 as claimed: on a task switch the old connection is fully closed
\* before the new one is opened: never two sockets that are not CLOSED.
C11_OldFullyClosedBeforeNew ==
    Cardinality(NotClosed) <= 1

\* C11 as amended: on a task switch close() has been called on the old
\* socket (it is CLOSING or CLOSED, its close event possibly still to come)
\* before the new one is created, so that never two sockets are both able to
\* hand inbound frames to the state.
C11_OldClosingBeforeNew ==
    /\ Cardinality(CanDeliver) <= 1
    /\ \A i \in SocketIds : i # ws => sockets[i].readyState \in {"CLOSING", "CLOSED"}

C11_Witness ==
    /\ phase = "mounted"
    /\ Len(sockets) = 2
    /\ sockets[1].readyState = "CLOSING"
    /\ sockets[2].readyState = "OPEN"
    /\ sockets[1].task # sockets[2].task

\* the values the delivered frames parse to, in delivery order
ParsedDelivered ==
    LET Parses(e) == ~JSONParse(e.frame).threw
        sel == SelectSeq(delivered, Parses)
    IN  [k \in 1..Len(sel) |-> JSONParse(sel[k].frame).value]

\* C12: the events array is append-only and in delivery order: every step
\* leaves it alone or adds one entry at its end, and its entries are the
\* delivered events in the order the transport delivered them.
C12_AppendOnlyInDeliveryOrder ==
    /\ [][\/ events' = events
          \/ /\ Len(events') = Len(events) + 1
             /\ SubSeq(events', 1, Len(events)) = events]_vars
    /\ [](events = ParsedDelivered)

C12_Witness ==
    /\ Len(events) = MaxStream
    /\ events[1] # events[2]
    /\ events[1] = delivered[1].frame
    /\ events[2] = delivered[2].frame

\* positions of the delivered PlanUpdate events
PlanIx == {k \in DeliveredIx : delivered[k].frame.type = "plan_update"}

\* C13: plan is the plan text of the most recently delivered PlanUpdate, not
\* merged with earlier ones; before the first PlanUpdate it is the initial
\* empty string.
C13_PlanIsLastPlanUpdate ==
    plan = IF PlanIx = {} THEN ""
           ELSE delivered[CHOOSE k \in PlanIx : \A j \in PlanIx : j <= k].frame.data

C13_Witness ==
    /\ Len(delivered) >= 2
    /\ delivered[1].frame.type = "plan_update"
    /\ delivered[1].frame.data = "p2"
    /\ delivered[2].frame.type = "plan_update"
    /\ delivered[2].frame.data = "p1"
    /\ plan = "p1"

IsScreenshot(e) == e.type = "screenshot"

\* C14: no screenshot event appears among the event stream cards or in the
\* terminal view, and a step that applies a Screenshot event leaves
\* latestScreenshot equal to that event's image.
C14_ScreenshotsOnlyInBrowserView ==
    /\ [](/\ \A k \in 1..Len(EventCards(events)) : ~IsScreenshot(EventCards(events)[k])
          /\ \A k \in 1..Len(TerminalEvents(events)) : ~IsScreenshot(TerminalEvents(events)[k]))
    /\ [][(Delivers /\ LastFrame \in ValidFrames /\ IsScreenshot(LastFrame))
             => latestScreenshot' = LastFrame.data]_vars

C14_Witness ==
    /\ phase = "mounted"
    /\ Len(delivered) = 3
    /\ delivered[1].frame.type = "screenshot" /\ delivered[1].frame.data = "img1"
    /\ delivered[2].frame.type = "thought"
    /\ delivered[3].frame.type = "screenshot" /\ delivered[3].frame.data = "img2"
    /\ latestScreenshot = "img2"
    /\ Len(events) = 3
    /\ Len(EventCards(events)) = 1
    /\ Len(TerminalEvents(events)) = 1

\* the step closes socket i
Closes(i) ==
    /\ i \in SocketIds
    /\ sockets[i].readyState # "CLOSED"
    /\ Len(sockets') = Len(sockets)
    /\ sockets'[i].readyState = "CLOSED"

\* C15: a malformed payload does not tear the stream down: handling it
\* leaves the socket as it was (close is not called on it), so valid events
\* delivered after it are still applied.
C15_MalformedKeepsStreamOpen ==
    [][(Delivers /\ LastFrame \in MalformedFrames) =>
          /\ sockets' = sockets
          /\ phase' = "mounted"]_vars

\* C16: a close of the live socket that the page did not ask for sets
\* connected to false and leaves events, agents, plan and latestScreenshot
\* as the applied events built them.
C16_UnexpectedCloseKeepsState ==
    [][(phase = "mounted" /\ ws # 0 /\ ~sockets[ws].closeCalled /\ Closes(ws)) =>
          /\ ~isConnected'
          /\ <<events, agents, plan, latestScreenshot>>' =
                <<events, agents, plan, latestScreenshot>>]_vars

C16_Witness ==
    /\ ClosedUnexpectedly
    /\ ~isConnected
    /\ Len(events) = MaxStream
    /\ plan # ""
    /\ AgentKeys # {}

\* C19: every record in agents has a defined role and a status of running
\* or completed.
C19_AgentRecordsWellFormed ==
    \A n \in AgentKeys :
        /\ agents[n].role \in Roles
        /\ agents[n].status \in {"running", "completed"}

\* C17: a re-render with the task id the hook already has creates no socket
\* and closes none: the sockets, the effect's socket and the ref stay as
\* they are.
C17_RerenderKeepsConnection ==
    [][renders' = renders + 1 =>
          /\ sockets' = sockets
          /\ ws' = ws
          /\ wsRef' = wsRef]_vars

C17_Witness ==
    /\ renders = MaxRenders
    /\ Len(sockets) = 1
    /\ ws = 1
    /\ sockets[1].readyState = "OPEN"
    /\ ~sockets[1].closeCalled

\* C18: a socket is created only when the consumer mounts or asks for
\* another task id, and it is a socket for that id; a socket on which close
\* was called stays closing or closed.  So nothing is opened after an
\* unmount, and nothing is reopened for a task id the consumer left.
C18_NoReconnectAfterDisconnect ==
    [][/\ Len(sockets') >= Len(sockets)
       /\ Len(sockets') > Len(sockets) =>
             /\ phase' = "mounted"
             /\ phase = "init" \/ taskId' # taskId
             /\ Len(sockets') = Len(sockets) + 1
             /\ sockets'[Len(sockets')].task = taskId'
       /\ \A i \in SocketIds :
             sockets[i].closeCalled =>
                /\ sockets'[i].closeCalled
                /\ sockets'[i].readyState \in {"CLOSING", "CLOSED"}]_vars

C18_Witness ==
    /\ phase = "unmounted"
    /\ Len(sockets) = MaxSockets
    /\ \A i \in SocketIds : sockets[i].closeCalled /\ sockets[i].readyState = "CLOSED"

\* C20: whenever connected is false, the chat input and the Send button are
\* disabled.
C20_SendDisabledWhileDisconnected ==
    (phase = "mounted" /\ ~isConnected) => InputDisabled

\* C21: what the page shows is a function of the derived state and the
\* polled status: two instances that hold the same events, agents, plan,
\* latestScreenshot, isConnected and task status show the same status badge,
\* step count, terminal list and agent roster, however each got there.
SameInputs ==
    /\ events = twin.events
    /\ agents = twin.agents
    /\ plan = twin.plan
    /\ latestScreenshot = twin.latestScreenshot
    /\ isConnected = twin.isConnected
    /\ task.status = twin.task.status

C21_ViewIsFunctionOfState ==
    SameInputs =>
        View(events, agents, agentOrder, task)
            = View(twin.events, twin.agents, twin.agentOrder, twin.task)

C21_Witness ==
    /\ SameInputs
    /\ Len(events) = MaxTwin
    /\ Len(agentOrder) >= 1
    /\ task # NoTask
    /\ sockets[1].readyState = "CLOSED"
    /\ StepsOf(events) >= 1 \/ Len(agentOrder) = 2

\* C22: validate(value) says isValid exactly when every rule added so far
\* accepts the value, with no errors then; otherwise errors holds one message
\* per failing rule, in the order the rules were added; the call leaves the
\* rule list as it was, so a second call with the same value returns the same.
Failing(rs, v) == {k \in 1..Len(rs) : v \notin rs[k].accepts}

\* place of rule k among the failing rules
Rank(rs, v, k) == Cardinality({j \in Failing(rs, v) : j <= k})

Validates == result'.calls = result.calls + 1

C22_ValidateReportsFailingRules ==
    [][Validates =>
          /\ rules' = rules
          /\ result'.isValid <=> (Failing(rules, result'.value) = {})
          /\ result'.isValid => result'.errors = << >>
          /\ Len(result'.errors) = Cardinality(Failing(rules, result'.value))
          /\ \A k \in Failing(rules, result'.value) :
                result'.errors[Rank(rules, result'.value, k)] = rules[k].message
          /\ (result.called /\ result.value = result'.value
                /\ result.nrules = Len(rules))
             => result'.errors = result.errors /\ result'.isValid = result.isValid]_vars

C22_Witness ==
    /\ result.calls = MaxCalls
    /\ result.nrules = MaxRules
    /\ Len(rules) = MaxRules
    /\ Cardinality(Failing(rules, result.value)) = MaxRules
    /\ result.errors[1] # result.errors[Len(result.errors)]

\* C23: getEnvVar returns the variable when it is set to a non-empty string,
\* the default when the variable is unset or empty and a default is given,
\* and throws when it is unset or empty with no default; the environment is
\* never changed by the call.
GetsEnv == envResult'.calls = envResult.calls + 1

C23_GetEnvVarValueDefaultOrThrow ==
    [][GetsEnv =>
          LET set == env[envResult'.name] \notin {Undef, ""}
              d   == envResult'.default
          IN  /\ env' = env
              /\ set => ~envResult'.threw /\ envResult'.value = env[envResult'.name]
              /\ (~set /\ d # Undef) => ~envResult'.threw /\ envResult'.value = d
              /\ (~set /\ d = Undef) => envResult'.threw]_vars

C23_Witness ==
    /\ envResult.called
    /\ env[envResult.name] = ""
    /\ envResult.default = "d"
    /\ envResult.value = "d"

\* C24: while the page is mounted and the socket of the current task id is
\* open, isConnected is true; the close event of a socket released earlier
\* does not turn it off.
C24_ConnectedTracksCurrentSocket ==
    (phase = "mounted" /\ ws # 0 /\ sockets[ws].readyState = "OPEN") => isConnected

\* C25: a delivered frame changes only the side fields of its kind: a
\* screenshot not agents or plan, a plan_update not agents or
\* latestScreenshot, agent_spawn / agent_complete not plan or
\* latestScreenshot and no record but the named agent's, and any other frame
\* none of the three.
C25_EachKindOwnFields ==
    [][Delivers =>
          LET t == IF LastFrame.json = "object" THEN LastFrame.type ELSE Undef IN
          /\ t = "screenshot" => agents' = agents /\ plan' = plan
          /\ t = "plan_update" => agents' = agents /\ latestScreenshot' = latestScreenshot
          /\ t \in {"agent_spawn", "agent_complete"} =>
                /\ plan' = plan
                /\ latestScreenshot' = latestScreenshot
                /\ \A n \in Names : n # LastFrame.name => agents'[n] = agents[n]
          /\ t \notin {"screenshot", "plan_update", "agent_spawn", "agent_complete"} =>
                /\ agents' = agents
                /\ plan' = plan
                /\ latestScreenshot' = latestScreenshot]_vars

C25_Witness ==
    /\ Len(delivered) = MaxStream
    /\ plan # ""
    /\ latestScreenshot # Undef
    /\ Cardinality(AgentKeys) = 1
    /\ delivered[MaxStream].frame.type = "screenshot"

\* C29: sendMessage writes a frame only to the socket created last, and only
\* while no cleanup has run on it: a call after a task switch, after an
\* unmount, or with the ref left on the old socket when taskId became null,
\* writes nothing to that old socket.
C29_SendsOnlyToLiveSocket ==
    [][\A i \in SocketIds :
          (i <= Len(sockets') /\ sockets'[i].sent # sockets[i].sent) =>
             /\ i = Len(sockets)
             /\ i = ws
             /\ ~sockets[i].closeCalled]_vars

C29_Witness ==
    /\ staleSends > 0
    /\ taskId = NullTask
    /\ phase = "mounted"
    /\ wsRef # 0
    /\ sockets[wsRef].sent = << >>

\* C26: once no content fetch is outstanding, the preview shows what was
\* fetched for the file that is selected now (or the could-not-load text of
\* its fetch), never the content of a file selected before it.
C26_PreviewIsLastSelection ==
    (phase = "mounted" /\ selectedFile # Undef /\ fetches = << >>) =>
        fileContent \in {Content(taskId, selectedFile), CouldNotLoad}

\* C27: the page's task record and file list are only ever set from a
\* response to a request made for the task id the page is on; only the
\* current task id has a polling timer, and there is at most one timer.
TimerCount == timers["A"] + timers["B"]

C27_NoStaleTaskOrFiles ==
    [][/\ task' # task => task'.id = taskId
       /\ files' # files => files'.task = taskId
       /\ TimerCount' <= 1
       /\ \A t \in TaskIds : timers'[t] > 0 => t = taskId']_vars

\* C28: every applied screenshot event that carries a non-empty image leaves
\* the browser tab active, whatever tab was active before.
C28_ScreenshotSelectsBrowser ==
    [][(/\ Delivers
        /\ LastFrame \in ValidFrames
        /\ LastFrame.type = "screenshot"
        /\ LastFrame.data \notin {Undef, ""}
        /\ phase' = "mounted") => activeTab' = "browser"]_vars

\* C30: at most one createTask request is outstanding; a submit with a blank
\* input or while loading issues none; issuing one sets loading; loading goes
\* back to false only in a step in which a request fails; when a request
\* succeeds the router leaves the page and loading stays true.
Submits == submits' = submits + 1

C30_OneCreateTaskAtATime ==
    [][/\ Len(createReqs') <= 1
       /\ (Submits /\ (Trim(input) = "" \/ loading)) =>
             createReqs' = createReqs /\ loading' = loading
       /\ Len(createReqs') > Len(createReqs) => Submits /\ loading'
       /\ (loading /\ ~loading') =>
             Len(createReqs') < Len(createReqs) /\ route' = route
       /\ route' # route =>
             loading /\ loading' /\ Len(createReqs') < Len(createReqs)]_vars

C30_Witness ==
    /\ route # "/"
    /\ loading
    /\ submits = MaxSubmits
    /\ createReqs = << >>

====
